---- MODULE Spec2Model ----
(***************************************************************************)
(* roomeet: the in-memory store (server/storage.ts, class MemStorage) and  *)
(* the HTTP routes that drive it (registerRoutes).  Requests are served    *)
(* one at a time, each handler run to completion.  A handler is an         *)
(* operator from the request and the store to the response and the store   *)
(* it leaves; the action of a route applies it.                            *)
(***************************************************************************)
EXTENDS Integers, Sequences, FiniteSets, TLC

(***************************************************************************)
(* Bounds of the model.                                                    *)
(***************************************************************************)
\* sends are accepted while fewer than MaxMessages messages are stored, and
\* properties while fewer than MaxProperties are
MaxMessages == 2
MaxProperties == 1
\* the records a store holds when every route is in play
MaxRecords == 2
\* the storage calls that may be in flight at once, and the conversations
\* they may come to store
MaxInFlight == 2
MaxConversations == 2

\* the ids registration hands out, and the values the clock takes
UserIds == {1, 2}
Times == {0, 1}
\* receiver ids a request body may carry: 0 never names a user
ReceiverIds == {0} \cup UserIds
Contents == {"hi"}
\* JSON values of the optional "read" field of a message body
ReadValues == {"true", "false", "null"}
\* the session of a request: 0 is a request without an authenticated session
NoSession == 0

VARIABLES
    users,                  \* Map<number, User>
    currentUserId,
    conversations,          \* Map<number, Conversation>
    currentConversationId,
    messages,               \* Map<number, Message>
    currentMessageId,
    now,                    \* the latest value new Date() has returned
    userProfiles,           \* Map<number, UserProfile>, keyed by profile id
    userIdToProfileIdMap,   \* Map<number, number>
    currentProfileId,
    properties,             \* Map<number, Property>
    currentPropertyId,
    userProfile,            \* the profiles the matches page has loaded: the
    otherProfile,           \* current user's and a candidate's
    matchPercentage,        \* calculatedMatchPercentage of the matches list
    overallPercentage,      \* overallPercentage of the compatibility breakdown
    inFlight                \* the storage calls suspended at an await

messaging == <<conversations, currentConversationId, messages,
               currentMessageId, now>>

profiling == <<userProfiles, userIdToProfileIdMap, currentProfileId,
               properties, currentPropertyId>>

scoring == <<userProfile, otherProfile, matchPercentage, overallPercentage>>

vars == <<users, currentUserId, messaging, profiling, scoring, inFlight>>

(***************************************************************************)
(* JavaScript Map and Array helpers.                                       *)
(***************************************************************************)
EmptyMap == [k \in {} |-> 0]

\* Map.prototype.set: an existing key keeps its place, a new key goes last
MapSet(m, k, v) ==
    [x \in DOMAIN m \cup {k} |-> IF x = k THEN v ELSE m[x]]

\* Array.from(map.values()): insertion order.  Every key comes from a counter
\* that starts at 1 and grows by one, and no entry is ever deleted, so the
\* keys are 1..size and insertion order is ascending key order
MapValues(m) == [i \in 1..Cardinality(DOMAIN m) |-> m[i]]

\* Array.prototype.sort((a, b) => key(a) - key(b)) on entries [key, val]:
\* a stable sort, ascending by key
RECURSIVE InsertByKey(_, _)
InsertByKey(s, x) ==
    IF s = <<>> THEN <<x>>
    ELSE IF s[Len(s)].key - x.key <= 0 THEN Append(s, x)
    ELSE Append(InsertByKey(SubSeq(s, 1, Len(s) - 1), x), s[Len(s)])

RECURSIVE SortByKey(_)
SortByKey(s) ==
    IF s = <<>> THEN <<>>
    ELSE InsertByKey(SortByKey(SubSeq(s, 1, Len(s) - 1)), s[Len(s)])

(***************************************************************************)
(* MemStorage: users.                                                      *)
(***************************************************************************)
getUser_anyone(id) == {[id |-> id]}

\* getUser: the set holding the user with this id, empty when undefined
getUser(id) == IF id \in DOMAIN users THEN {users[id]} ELSE {}

(***************************************************************************)
(* MemStorage: conversations.                                              *)
(***************************************************************************)
\* the sequence holding the first conversation of the ordered pair, or <<>>
getConversation(convs, user1Id, user2Id) ==
    LET smallerId == IF user1Id < user2Id THEN user1Id ELSE user2Id
        largerId  == IF user1Id < user2Id THEN user2Id ELSE user1Id
        Match(conv) == conv.user1Id = smallerId /\ conv.user2Id = largerId
        found == SelectSeq(MapValues(convs), Match)
    IN  IF found = <<>> THEN <<>> ELSE <<found[1]>>

getConversationById(convs, id) ==
    IF id \in DOMAIN convs THEN <<convs[id]>> ELSE <<>>

getUserConversations(convs, userId) ==
    LET Mine(conv) == conv.user1Id = userId \/ conv.user2Id = userId
    IN  SelectSeq(MapValues(convs), Mine)

orderIds_asGiven(user1Id, user2Id) == <<user1Id, user2Id>>

\* [smallerId, largerId] of createOrUpdateConversation
orderIds(user1Id, user2Id) ==
    IF user1Id < user2Id THEN <<user1Id, user2Id>> ELSE <<user2Id, user1Id>>

\* the store after the call and the conversation it returns
createOrUpdateConversation(convs, nextId, user1Id, user2Id, t) ==
    LET ids == orderIds(user1Id, user2Id)
        existingConversation == getConversation(convs, ids[1], ids[2])
    IN  IF existingConversation # <<>>
        THEN LET updatedConversation ==
                     [existingConversation[1] EXCEPT !.lastMessageAt = t]
             IN  [conversations |-> MapSet(convs, updatedConversation.id,
                                           updatedConversation),
                  currentConversationId |-> nextId,
                  ret |-> updatedConversation]
        ELSE LET newConversation ==
                     [id |-> nextId, user1Id |-> ids[1], user2Id |-> ids[2],
                      lastMessageAt |-> t, unreadCount |-> 0]
             IN  [conversations |-> MapSet(convs, nextId, newConversation),
                  currentConversationId |-> nextId + 1,
                  ret |-> newConversation]

(***************************************************************************)
(* MemStorage: messages.                                                   *)
(***************************************************************************)
belongsTo_oneWay(message, conversation) ==
    message.senderId = conversation.user1Id /\
    message.receiverId = conversation.user2Id

\* whether the message is between the conversation's two users
belongsTo(message, conversation) ==
    \/ message.senderId = conversation.user1Id /\
       message.receiverId = conversation.user2Id
    \/ message.senderId = conversation.user2Id /\
       message.receiverId = conversation.user1Id

oldestFirst_newestFirst(message) == 0 - message.createdAt

\* the sort key of (a, b) => a.createdAt.getTime() - b.createdAt.getTime()
oldestFirst(message) == message.createdAt

getMessages(convs, msgs, conversationId) ==
    LET conversation == getConversationById(convs, conversationId)
    IN  IF conversation = <<>> THEN <<>>
        ELSE LET InConversation(message) == belongsTo(message, conversation[1])
                 conversationMessages == SelectSeq(MapValues(msgs), InConversation)
                 keyed == [i \in 1..Len(conversationMessages) |->
                              [key |-> oldestFirst(conversationMessages[i]),
                               val |-> conversationMessages[i]]]
                 sorted == SortByKey(keyed)
             IN  [i \in 1..Len(sorted) |-> sorted[i].val]

\* message.read ?? false
readOrFalse(message) ==
    IF "read" \in DOMAIN message /\ message.read # "null"
    THEN message.read = "true"
    ELSE FALSE

unreadAfterSend_one(conversation) == 1

\* (conversation.unreadCount || 0) + 1
unreadAfterSend(conversation) == conversation.unreadCount + 1

\* the store after the call and the message it returns; t1 and t2 are the
\* two clock reads, in createOrUpdateConversation and for createdAt
sendMessage(convs, nextConversationId, msgs, nextMessageId, message, t1, t2) ==
    LET resolved == createOrUpdateConversation(convs, nextConversationId,
                        message.senderId, message.receiverId, t1)
        conversation == resolved.ret
        id == nextMessageId
        newMessage == [id |-> id,
                       senderId |-> message.senderId,
                       receiverId |-> message.receiverId,
                       content |-> message.content,
                       read |-> readOrFalse(message),
                       createdAt |-> t2]
        updatedConversation ==
            [conversation EXCEPT !.lastMessageAt = newMessage.createdAt,
                                 !.unreadCount = unreadAfterSend(conversation)]
    IN  [conversations |-> MapSet(resolved.conversations, conversation.id,
                                  updatedConversation),
         currentConversationId |-> resolved.currentConversationId,
         messages |-> MapSet(msgs, id, newMessage),
         currentMessageId |-> nextMessageId + 1,
         ret |-> newMessage]

messagesToMark_sent(message, conversation, userId) ==
    message.senderId = userId /\ belongsTo(message, conversation)

\* the filter of markMessagesAsRead: the user is the receiver and the message
\* is between the conversation's two users
messagesToMark(message, conversation, userId) ==
    message.receiverId = userId /\ belongsTo(message, conversation)

updatedMessage_onlyMarked(message, toMark) == [message EXCEPT !.read = toMark]

\* the message the forEach of markMessagesAsRead leaves stored: a message of
\* the filter that is unread is replaced by {...message, read: true}
updatedMessage(message, toMark) ==
    IF toMark /\ ~message.read THEN [message EXCEPT !.read = TRUE] ELSE message

\* the conversations and messages after the call
markMessagesAsRead(convs, msgs, conversationId, userId) ==
    LET conversation == getConversationById(convs, conversationId)
    IN  IF conversation = <<>>
        THEN [conversations |-> convs, messages |-> msgs]
        ELSE LET ToMark(message) ==
                     messagesToMark(message, conversation[1], userId)
                 updatedConversation ==
                     [conversation[1] EXCEPT !.unreadCount = 0]
             IN  [conversations |-> MapSet(convs, conversationId,
                                           updatedConversation),
                  messages |-> [id \in DOMAIN msgs |->
                                   updatedMessage(msgs[id], ToMark(msgs[id]))]]

(***************************************************************************)
(* MemStorage: profiles and properties.  Of the scalar columns of a        *)
(* profile the model keeps fullName, location and idealLocation: age,      *)
(* occupation, budget, lifestyle, cleanliness, smokingPreference,          *)
(* petPreference and additionalInfo are stored exactly as location is.     *)
(***************************************************************************)
\* JSON null in a text field and in a list field; a value of the wrong JSON
\* type in a text field and in a list field
Null == "null"
NullList == <<"null">>
NotAString == "42"
NotAList == <<"not a list">>

TextFields == {"fullName", "location", "idealLocation"}
ListFields == {"hobbies", "interests", "roommateQualities"}

\* x ?? null on a text field, x ?? [] on a list field
orNull(data, f) == IF f \in DOMAIN data THEN data[f] ELSE Null
orEmpty(data, f) ==
    IF f \in DOMAIN data /\ data[f] # NullList THEN data[f] ELSE <<>>

\* JavaScript truthiness of a text field that may be absent
truthyText(data, f) == f \in DOMAIN data /\ data[f] \notin {Null, ""}

getUserProfile(profiles, idMap, userId) ==
    IF userId \notin DOMAIN idMap THEN <<>>
    ELSE IF idMap[userId] \in DOMAIN profiles
    THEN <<profiles[idMap[userId]]>> ELSE <<>>

\* the profile store after the call and the profile it returns
createUserProfile(profiles, idMap, nextId, userId, insertProfile) ==
    LET id == nextId
        hobbies == orEmpty(insertProfile, "hobbies")
        interests == orEmpty(insertProfile, "interests")
        roommateQualities == orEmpty(insertProfile, "roommateQualities")
        profile ==
            [id |-> id,
             userId |-> userId,
             fullName |-> orNull(insertProfile, "fullName"),
             location |-> orNull(insertProfile, "location"),
             idealLocation |-> orNull(insertProfile, "idealLocation"),
             hobbies |-> hobbies,
             interests |-> interests,
             roommateQualities |-> roommateQualities,
             \* insertProfile.fullName !== null: undefined is not null
             profileComplete |->
                 /\ ("fullName" \in DOMAIN insertProfile =>
                        insertProfile.fullName # Null)
                 /\ Len(interests) > 0
                 /\ Len(hobbies) > 0]
    IN  [userProfiles |-> MapSet(profiles, id, profile),
         userIdToProfileIdMap |-> MapSet(idMap, userId, id),
         currentProfileId |-> nextId + 1,
         ret |-> profile]

updateUserProfile(profiles, idMap, nextId, userId, updateData) ==
    IF userId \notin DOMAIN idMap \/ idMap[userId] \notin DOMAIN profiles
    THEN createUserProfile(profiles, idMap, nextId, userId, updateData)
    ELSE LET profileId == idMap[userId]
             existingProfile == profiles[profileId]
             list(f) == IF f \in DOMAIN updateData
                        THEN orEmpty(updateData, f) ELSE existingProfile[f]
             hobbies == list("hobbies")
             interests == list("interests")
             \* {...existingProfile, ...updateData, <the explicit fields>}
             updatedProfile ==
                 [f \in DOMAIN existingProfile \cup DOMAIN updateData |->
                     IF f \in ListFields THEN list(f)
                     ELSE IF f = "profileComplete"
                     THEN /\ \/ truthyText(updateData, "fullName")
                             \/ truthyText(existingProfile, "fullName")
                          /\ Len(interests) > 0
                          /\ Len(hobbies) > 0
                     ELSE IF f \in DOMAIN updateData THEN updateData[f]
                     ELSE existingProfile[f]]
         IN  [userProfiles |-> MapSet(profiles, profileId, updatedProfile),
              userIdToProfileIdMap |-> idMap,
              currentProfileId |-> nextId,
              ret |-> updatedProfile]

getAllUserProfiles(profiles) == MapValues(profiles)

\* the properties after the call and the property it returns
createProperty(props, nextId, userId, insertProperty) ==
    LET id == nextId
        property ==
            [id |-> id,
             userId |-> userId,
             title |-> insertProperty.title,
             description |-> insertProperty.description,
             price |-> insertProperty.price,
             location |-> insertProperty.location,
             roomType |-> insertProperty.roomType,
             imageUrls |-> IF "imageUrls" \in DOMAIN insertProperty
                           THEN insertProperty.imageUrls ELSE <<>>,
             amenities |-> IF "amenities" \in DOMAIN insertProperty
                           THEN insertProperty.amenities ELSE <<>>,
             available |-> IF "available" \in DOMAIN insertProperty
                           THEN insertProperty.available ELSE TRUE]
    IN  [properties |-> MapSet(props, id, property),
         currentPropertyId |-> nextId + 1,
         ret |-> property]

(***************************************************************************)
(* Request inputs.                                                         *)
(***************************************************************************)
\* bodies of POST /api/messages: any of receiverId, content, read and a
\* senderId of the client's choosing may be present
MessageBodies ==
    [receiverId : ReceiverIds, content : Contents]
    \cup [receiverId : UserIds, content : Contents, read : ReadValues]
    \cup [receiverId : UserIds, content : Contents, senderId : UserIds]
    \cup [content : Contents]
    \cup [receiverId : UserIds]

\* a JSON number, or a string of decimal digits, holding n
JsonIds == [type : {"number", "string"}, n : ReceiverIds]

\* bodies of POST /api/conversations
ConversationBodies == [otherUserId : JsonIds] \cup {[none |-> TRUE]}

\* JavaScript truthiness of a JSON id: the number 0 is falsy, "0" is not
truthy(v) == ~(v.type = "number" /\ v.n = 0)

\* parseInt of a JSON id
parseInt(v) == v.n

\* the sessions a request may come with
Sessions == DOMAIN users \cup {NoSession}

\* the values a clock read may return after one that returned t
Later(t) == {t2 \in Times : t2 >= t}

isAuthenticated_always(session) == TRUE

\* req.isAuthenticated()
isAuthenticated(session) == session # NoSession

(***************************************************************************)
(* insertMessageSchema.safeParse                                           *)
(***************************************************************************)
\* id and createdAt are omitted from the schema; receiverId, senderId and
\* content are required; read is optional and may be null
insertMessageSchema(data) ==
    IF {"senderId", "receiverId", "content"} \subseteq DOMAIN data
    THEN [success |-> TRUE,
          data |-> [f \in DOMAIN data \cap
                          {"senderId", "receiverId", "content", "read"} |->
                       data[f]]]
    ELSE [success |-> FALSE]

(***************************************************************************)
(* Route handlers: the response, and the messaging store the handler       *)
(* leaves (clock: the last value it read, or now when it read none).       *)
(***************************************************************************)
Answer(status, body, convs, nextConversationId, msgs, nextMessageId, clock) ==
    [status |-> status, body |-> body,
     conversations |-> convs, currentConversationId |-> nextConversationId,
     messages |-> msgs, currentMessageId |-> nextMessageId, now |-> clock]

\* a response that leaves the store as it is
Reply(status, body) ==
    Answer(status, body, conversations, currentConversationId,
           messages, currentMessageId, now)

\* the other participant, as the conversation routes work it out
otherUserOf(conversation, userId) ==
    IF conversation.user1Id = userId
    THEN conversation.user2Id ELSE conversation.user1Id

enhance(conversation, userId) ==
    LET otherUser == getUser(otherUserOf(conversation, userId))
    IN  [id |-> conversation.id,
         user1Id |-> conversation.user1Id,
         user2Id |-> conversation.user2Id,
         lastMessageAt |-> conversation.lastMessageAt,
         unreadCount |-> conversation.unreadCount,
         otherUser |-> otherUser]

recentFirst_oldestFirst(conversation) == conversation.lastMessageAt

\* the sort key of (a, b) => dateB.getTime() - dateA.getTime()
recentFirst(conversation) == 0 - conversation.lastMessageAt

\* GET /api/conversations
getConversationsRoute(session) ==
    IF ~isAuthenticated(session) THEN Reply(401, "Unauthorized")
    ELSE LET mine == getUserConversations(conversations, session)
             keyed == [i \in 1..Len(mine) |->
                          [key |-> recentFirst(mine[i]),
                           val |-> enhance(mine[i], session)]]
             sorted == SortByKey(keyed)
         IN  Reply(200, [i \in 1..Len(sorted) |-> sorted[i].val])

isParticipant_anyone(conversation, userId) == TRUE

\* the negation of conversation.user1Id !== req.user.id &&
\* conversation.user2Id !== req.user.id
isParticipant(conversation, userId) ==
    conversation.user1Id = userId \/ conversation.user2Id = userId

\* GET /api/conversations/:conversationId/messages
getMessagesRoute(session, conversationId) ==
    LET conversation == getConversationById(conversations, conversationId)
    IN  IF ~isAuthenticated(session) THEN Reply(401, "Unauthorized")
        ELSE IF conversation = <<>> THEN Reply(404, "Conversation not found")
        ELSE IF ~isParticipant(conversation[1], session)
        THEN Reply(403, "Forbidden")
        ELSE LET found == getMessages(conversations, messages, conversationId)
                 marked == markMessagesAsRead(conversations, messages,
                                              conversationId, session)
             IN  Answer(200, found, marked.conversations,
                        currentConversationId, marked.messages,
                        currentMessageId, now)

\* POST /api/messages; t1 and t2 are the clock reads of sendMessage
postMessagesRoute(session, body, t1, t2) ==
    LET messageData == [f \in DOMAIN body \cup {"senderId"} |->
                           IF f = "senderId" THEN session ELSE body[f]]
        parseResult == insertMessageSchema(messageData)
    IN  IF ~isAuthenticated(session) THEN Reply(401, "Unauthorized")
        ELSE IF ~parseResult.success THEN Reply(400, "ZodError")
        ELSE IF getUser(parseResult.data.receiverId) = {}
        THEN Reply(404, "Recipient not found")
        ELSE LET sent == sendMessage(conversations, currentConversationId,
                             messages, currentMessageId, parseResult.data,
                             t1, t2)
             IN  Answer(201, sent.ret, sent.conversations,
                        sent.currentConversationId, sent.messages,
                        sent.currentMessageId, t2)

\* POST /api/conversations; t is the clock read of createOrUpdateConversation
postConversationsRoute(session, body, t) ==
    IF ~isAuthenticated(session) THEN Reply(401, "Unauthorized")
    ELSE IF "otherUserId" \notin DOMAIN body \/ ~truthy(body.otherUserId)
    THEN Reply(400, "otherUserId is required")
    ELSE IF getUser(parseInt(body.otherUserId)) = {}
    THEN Reply(404, "User not found")
    ELSE LET resolved == createOrUpdateConversation(conversations,
                             currentConversationId, session,
                             parseInt(body.otherUserId), t)
         IN  Answer(200, enhance(resolved.ret, session),
                    resolved.conversations, resolved.currentConversationId,
                    messages, currentMessageId, t)

(***************************************************************************)
(* Actions: one request served.                                            *)
(***************************************************************************)
\* the store and the clock become what the handler left
Serve(answer) ==
    /\ conversations' = answer.conversations
    /\ currentConversationId' = answer.currentConversationId
    /\ messages' = answer.messages
    /\ currentMessageId' = answer.currentMessageId
    /\ now' = answer.now
    /\ UNCHANGED <<users, currentUserId, profiling, scoring, inFlight>>

\* registration (./auth): storage.createUser
Register ==
    /\ currentUserId \in UserIds
    /\ users' = MapSet(users, currentUserId, [id |-> currentUserId])
    /\ currentUserId' = currentUserId + 1
    /\ UNCHANGED <<messaging, profiling, scoring, inFlight>>

GetConversations(session) == Serve(getConversationsRoute(session))

GetMessages(session, conversationId) ==
    Serve(getMessagesRoute(session, conversationId))

\* a handler that answers before it reads the clock is served once, whatever
\* the clock would have returned; the first clock read of a send returns now
\* and the second now or later (the first is overwritten by the second in
\* the store, so the value it returns shows in no state)
PostMessages(session, body) ==
    LET early == postMessagesRoute(session, body, now, now)
    IN  IF early.status # 201 THEN Serve(early)
        ELSE /\ currentMessageId <= MaxMessages
             /\ \E t2 \in Later(now) :
                  Serve(postMessagesRoute(session, body, now, t2))

PostConversations(session, body) ==
    LET early == postConversationsRoute(session, body, now)
    IN  IF early.status # 200 THEN Serve(early)
        ELSE \E t \in Later(now) :
                 Serve(postConversationsRoute(session, body, t))

(***************************************************************************)
(* Profile and property routes.                                            *)
(***************************************************************************)
\* profile bodies: a full profile, a partial one, an empty one, and one with
\* a field of the wrong type
ProfileBodies ==
    {[fullName |-> "Ann", location |-> "Austin", hobbies |-> <<"Yoga">>,
      interests |-> <<"Music">>],
     [location |-> "Boston"],
     [fullName |-> Null, hobbies |-> NullList],
     [hobbies |-> <<"Yoga">>, interests |-> <<"Music">>],
     [fullName |-> NotAString]}

\* PATCH /api/profile takes its body as it comes
PatchBodies ==
    {b \in ProfileBodies : \A f \in DOMAIN b : b[f] # NotAString}
    \cup {[fullName |-> ""], [id |-> 9, userId |-> 9, profileComplete |-> TRUE],
          [userId |-> 2]}

PropertyBodies ==
    {[title |-> "Room", description |-> "Sunny", price |-> 500,
      location |-> "Austin", roomType |-> "private"],
     [title |-> "Room"]}

\* the columns of user_profiles but id, userId and profileComplete, text
\* columns holding text or null and list columns a list or null
insertUserProfileSchema(data) ==
    IF /\ \A f \in DOMAIN data \cap TextFields : data[f] # NotAString
       /\ \A f \in DOMAIN data \cap ListFields : data[f] # NotAList
    THEN [success |-> TRUE,
          data |-> [f \in DOMAIN data \cap (TextFields \cup ListFields) |->
                       data[f]]]
    ELSE [success |-> FALSE]

\* the columns of properties but id and userId; title, description, price,
\* location and roomType are required
insertPropertySchema(data) ==
    IF {"title", "description", "price", "location", "roomType"}
           \subseteq DOMAIN data
    THEN [success |-> TRUE,
          data |-> [f \in DOMAIN data \ {"id", "userId"} |-> data[f]]]
    ELSE [success |-> FALSE]

ProfileAnswer(status, body, profiles, idMap, nextId, props, nextPropertyId) ==
    [status |-> status, body |-> body,
     userProfiles |-> profiles, userIdToProfileIdMap |-> idMap,
     currentProfileId |-> nextId,
     properties |-> props, currentPropertyId |-> nextPropertyId]

ProfileReply(status, body) ==
    ProfileAnswer(status, body, userProfiles, userIdToProfileIdMap,
                  currentProfileId, properties, currentPropertyId)

Saved(status, saved) ==
    ProfileAnswer(status, saved.ret, saved.userProfiles,
                  saved.userIdToProfileIdMap, saved.currentProfileId,
                  properties, currentPropertyId)

emptyProfile(userId) ==
    [id |-> 0, userId |-> userId, fullName |-> Null, location |-> Null,
     idealLocation |-> Null, hobbies |-> <<>>, interests |-> <<>>,
     roommateQualities |-> <<>>, profileComplete |-> FALSE]

\* GET /api/profile
getProfileRoute(session) ==
    LET profile == getUserProfile(userProfiles, userIdToProfileIdMap, session)
    IN  IF ~isAuthenticated(session) THEN ProfileReply(401, "Unauthorized")
        ELSE IF profile = <<>> THEN ProfileReply(200, emptyProfile(session))
        ELSE ProfileReply(200, profile[1])

\* POST /api/profile
postProfileRoute(session, body) ==
    LET parseResult == insertUserProfileSchema(body)
        existingProfile ==
            getUserProfile(userProfiles, userIdToProfileIdMap, session)
    IN  IF ~isAuthenticated(session) THEN ProfileReply(401, "Unauthorized")
        ELSE IF ~parseResult.success THEN ProfileReply(400, "ZodError")
        ELSE IF existingProfile # <<>>
        THEN Saved(201, updateUserProfile(userProfiles, userIdToProfileIdMap,
                            currentProfileId, session, parseResult.data))
        ELSE Saved(201, createUserProfile(userProfiles, userIdToProfileIdMap,
                            currentProfileId, session, parseResult.data))

\* PATCH /api/profile
patchProfileRoute(session, body) ==
    IF ~isAuthenticated(session) THEN ProfileReply(401, "Unauthorized")
    ELSE Saved(200, updateUserProfile(userProfiles, userIdToProfileIdMap,
                        currentProfileId, session, body))

\* GET /api/profiles
getProfilesRoute(session) ==
    LET Other(profile) == profile.userId # session
    IN  IF ~isAuthenticated(session) THEN ProfileReply(401, "Unauthorized")
        ELSE ProfileReply(200, SelectSeq(getAllUserProfiles(userProfiles), Other))

\* POST /api/properties
postPropertiesRoute(session, body) ==
    LET parseResult == insertPropertySchema(body)
    IN  IF ~isAuthenticated(session) THEN ProfileReply(401, "Unauthorized")
        ELSE IF ~parseResult.success THEN ProfileReply(400, "ZodError")
        ELSE LET created == createProperty(properties, currentPropertyId,
                                           session, parseResult.data)
             IN  ProfileAnswer(201, created.ret, userProfiles,
                               userIdToProfileIdMap, currentProfileId,
                               created.properties, created.currentPropertyId)

ServeProfile(answer) ==
    /\ userProfiles' = answer.userProfiles
    /\ userIdToProfileIdMap' = answer.userIdToProfileIdMap
    /\ currentProfileId' = answer.currentProfileId
    /\ properties' = answer.properties
    /\ currentPropertyId' = answer.currentPropertyId
    /\ UNCHANGED <<users, currentUserId, messaging, scoring, inFlight>>

GetProfile(session) == ServeProfile(getProfileRoute(session))

PostProfile(session, body) == ServeProfile(postProfileRoute(session, body))

PatchProfile(session, body) == ServeProfile(patchProfileRoute(session, body))

GetProfiles(session) == ServeProfile(getProfilesRoute(session))

PostProperties(session, body) ==
    LET answer == postPropertiesRoute(session, body)
    IN  /\ answer.status = 201 => currentPropertyId <= MaxProperties
        /\ ServeProfile(answer)

(***************************************************************************)
(* The match scorers of the client.  Text is a sequence of characters, so  *)
(* that toLowerCase and includes do what they do in JavaScript; a number   *)
(* that need not be whole is a fraction num / den, den > 0.                *)
(***************************************************************************)
\* null in a text field and in a list field of a loaded profile
NoText == <<"null">>
NoList == <<NoText>>

Reading == <<"R", "e", "a", "d", "i", "n", "g">>
reading == <<"r", "e", "a", "d", "i", "n", "g">>
Gaming == <<"G", "a", "m", "i", "n", "g">>
Cooking == <<"C", "o", "o", "k", "i", "n", "g">>
Music == <<"M", "u", "s", "i", "c">>
Clean == <<"C", "l", "e", "a", "n">>
Quiet == <<"Q", "u", "i", "e", "t">>
VeryClean == <<"v", "e", "r", "y", " ", "c", "l", "e", "a", "n">>
Austin == <<"A", "u", "s", "t", "i", "n">>
austin == <<"a", "u", "s", "t", "i", "n">>
Boston == <<"B", "o", "s", "t", "o", "n">>

\* String.prototype.toLowerCase, on the letters above
toLowerCase(text) ==
    [i \in DOMAIN text |->
        CASE text[i] = "A" -> "a" [] text[i] = "B" -> "b"
          [] text[i] = "C" -> "c" [] text[i] = "G" -> "g"
          [] text[i] = "M" -> "m" [] text[i] = "Q" -> "q"
          [] text[i] = "R" -> "r" [] OTHER -> text[i]]

\* String.prototype.includes
includes(text, part) ==
    \E i \in 0..(Len(text) - Len(part)) :
        SubSeq(text, i + 1, i + Len(part)) = part

\* JavaScript truthiness of an enumerated field, a text field and a list
\* field: an empty list is truthy
set(v) == v \notin {Null, ""}
setText(v) == v \notin {NoText, <<>>}
setList(v) == v # NoList

Frac(num, den) == [num |-> num, den |-> den]
Whole(n) == Frac(n, 1)
Plus(x, y) == Frac(x.num * y.den + y.num * x.den, x.den * y.den)
AtMost(x, y) == x.num * y.den <= y.num * x.den
\* Math.min
Min(x, y) == IF AtMost(x, y) THEN x ELSE y
\* Math.max on whole numbers
Max(m, n) == IF m >= n THEN m ELSE n
\* Math.round(100 * x / n) of a fraction x >= 0 and a whole n > 0: the
\* nearest whole number, a half rounding up
roundPercent(x, n) == (200 * x.num + x.den * n) \div (2 * x.den * n)

\* the entries of a list that match an entry of the other list, case ignored
common(list, otherList) ==
    LET Shared(entry) ==
            \E i \in 1..Len(otherList) :
                toLowerCase(otherList[i]) = toLowerCase(entry)
    IN  SelectSeq(list, Shared)

RECURSIVE sum(_, _)
\* reduce((sum, category) => sum + category[field], 0)
sum(categories, field) ==
    IF categories = <<>> THEN Whole(0)
    ELSE Plus(sum(SubSeq(categories, 1, Len(categories) - 1), field),
              categories[Len(categories)][field])

Category(score, maxScore) == [score |-> score, maxScore |-> Whole(maxScore)]

\* an all-or-nothing category of the breakdown
exactMatch(mine, theirs, weight) ==
    Category(IF set(mine) /\ set(theirs) /\ mine = theirs
             THEN Whole(weight) ELSE Whole(0),
             IF set(mine) /\ set(theirs) THEN weight ELSE 0)

calculateLifestyleMatch(user, other) ==
    exactMatch(user.lifestyle, other.lifestyle, 20)

calculateCleanlinessMatch(user, other) ==
    exactMatch(user.cleanliness, other.cleanliness, 15)

calculateSmokingMatch(user, other) ==
    exactMatch(user.smokingPreference, other.smokingPreference, 15)

calculatePetMatch(user, other) ==
    exactMatch(user.petPreference, other.petPreference, 10)

sharedMatch_ofTheirs(list, otherList) ==
    IF \/ ~setList(list) \/ ~setList(otherList)
       \/ Len(list) = 0 \/ Len(otherList) = 0
    THEN Category(Whole(0), 0)
    ELSE Category(Frac(Len(common(list, otherList)) * 20,
                       Max(Len(otherList), 1)),
                  20)

\* a shared-list category of the breakdown
sharedMatch(list, otherList) ==
    IF \/ ~setList(list) \/ ~setList(otherList)
       \/ Len(list) = 0 \/ Len(otherList) = 0
    THEN Category(Whole(0), 0)
    ELSE Category(Frac(Len(common(list, otherList)) * 20,
                       Max(Len(list), 1)),
                  20)

calculateHobbyMatch(user, other) == sharedMatch(user.hobbies, other.hobbies)

calculateInterestMatch(user, other) ==
    sharedMatch(user.interests, other.interests)

calculateRoommateQualityMatch(user, other) ==
    IF ~setList(user.roommateQualities) \/ Len(user.roommateQualities) = 0
    THEN Category(Whole(0), 0)
    ELSE LET desiredQualities == user.roommateQualities
             \* otherProfile.additionalInfo?.toLowerCase() || ""
             additionalInfo ==
                 IF setText(other.additionalInfo)
                 THEN toLowerCase(other.additionalInfo) ELSE <<>>
             Found(quality) == includes(additionalInfo, toLowerCase(quality))
             matchedQualities == Len(SelectSeq(desiredQualities, Found))
         IN  Category(Min(Whole(10),
                          Frac(matchedQualities * 10, Len(desiredQualities))),
                      10)

calculateLocationMatch_oneWay(user, other) ==
    IF ~setText(user.location) \/ ~setText(other.location)
    THEN Category(Whole(0), 0)
    ELSE Category(IF toLowerCase(user.location) = toLowerCase(other.location)
                  THEN Whole(15)
                  ELSE IF /\ setText(user.idealLocation)
                          /\ toLowerCase(user.idealLocation)
                                 = toLowerCase(other.location)
                  THEN Whole(10) ELSE Whole(0),
                  15)

calculateLocationMatch(user, other) ==
    IF ~setText(user.location) \/ ~setText(other.location)
    THEN Category(Whole(0), 0)
    ELSE LET currentLocationMatch ==
                 toLowerCase(user.location) = toLowerCase(other.location)
             idealLocationMatch ==
                 /\ setText(user.idealLocation)
                 /\ toLowerCase(user.idealLocation)
                        = toLowerCase(other.location)
             reverseIdealLocationMatch ==
                 /\ setText(other.idealLocation)
                 /\ toLowerCase(user.location)
                        = toLowerCase(other.idealLocation)
         IN  Category(IF currentLocationMatch THEN Whole(15)
                      ELSE IF idealLocationMatch THEN Whole(10)
                      ELSE IF reverseIdealLocationMatch THEN Whole(10)
                      ELSE Whole(0),
                      15)

\* the categories of the breakdown that have data
categories(user, other) ==
    LET WithData(category) == category.maxScore.num > 0
    IN  SelectSeq(<<calculateLifestyleMatch(user, other),
                    calculateCleanlinessMatch(user, other),
                    calculateSmokingMatch(user, other),
                    calculatePetMatch(user, other),
                    calculateHobbyMatch(user, other),
                    calculateInterestMatch(user, other),
                    calculateRoommateQualityMatch(user, other),
                    calculateLocationMatch(user, other)>>, WithData)

noMatchAtAll_perfect(totalScore, totalMaxScore) == 100

\* the percentage of the breakdown when no category has data
noMatchAtAll(totalScore, totalMaxScore) == 0

\* overallPercentage of MatchCompatibility
MatchCompatibility(user, other) ==
    LET totalScore == sum(categories(user, other), "score")
        totalMaxScore == sum(categories(user, other), "maxScore").num
    IN  IF totalMaxScore > 0 THEN roundPercent(totalScore, totalMaxScore)
        ELSE noMatchAtAll(totalScore, totalMaxScore)

\* a profile that has not loaded: userProfile is null
NoProfile == [loaded |-> FALSE]

\* an all-or-nothing category of the matches list: points and maxPoints
exactPoints(mine, theirs, weight) ==
    IF set(mine) /\ set(theirs)
    THEN [points |-> IF mine = theirs THEN Whole(weight) ELSE Whole(0),
          maxPoints |-> Whole(weight)]
    ELSE [points |-> Whole(0), maxPoints |-> Whole(0)]

sharedPoints_perMatch(list, otherList) ==
    [points |-> Whole(Len(common(list, otherList)) * 20),
     maxPoints |-> Whole(20)]

\* a shared-list category of the matches list
sharedPoints(list, otherList) ==
    IF setList(list) /\ setList(otherList)
    THEN [points |-> Frac(Len(common(list, otherList)) * 20,
                          Max(Len(list), 1)),
          maxPoints |-> Whole(20)]
    ELSE [points |-> Whole(0), maxPoints |-> Whole(0)]

\* what each block of calculateMatchPercentage adds to points and maxPoints
matchPoints(user, other) ==
    <<exactPoints(user.lifestyle, other.lifestyle, 20),
      exactPoints(user.cleanliness, other.cleanliness, 15),
      exactPoints(user.smokingPreference, other.smokingPreference, 15),
      exactPoints(user.petPreference, other.petPreference, 10),
      sharedPoints(user.hobbies, other.hobbies),
      sharedPoints(user.interests, other.interests)>>

calculateMatchPercentage(user, other) ==
    IF user = NoProfile THEN 0
    ELSE LET points == sum(matchPoints(user, other), "points")
             maxPoints == Max(sum(matchPoints(user, other), "maxPoints").num, 1)
         IN  roundPercent(points, maxPoints)

(***************************************************************************)
(* The profiles the scorers are given.                                     *)
(***************************************************************************)
\* lifestyle, cleanliness, smokingPreference and petPreference
Preferences ==
    {<<Null, Null, Null, Null>>,
     <<"early-bird", "clean", "non-smoker", "no-pets">>,
     <<"night-owl", "clean", "smoker", Null>>}

HobbyLists ==
    {<<>>, <<Reading>>, <<Reading, Gaming>>, <<reading, Gaming, Cooking>>}

InterestLists == {<<>>, <<Music>>}

\* roommateQualities and additionalInfo
Abouts ==
    {<<(<<>>), NoText>>, <<(<<Clean>>), VeryClean>>,
     <<(<<Clean, Quiet>>), NoText>>}

\* location and idealLocation
Wheres ==
    {<<NoText, NoText>>, <<Austin, NoText>>, <<austin, Boston>>,
     <<Boston, NoText>>}

Profile(preferences, hobbies, interests, about, where) ==
    [loaded |-> TRUE,
     lifestyle |-> preferences[1],
     cleanliness |-> preferences[2],
     smokingPreference |-> preferences[3],
     petPreference |-> preferences[4],
     hobbies |-> hobbies,
     interests |-> interests,
     roommateQualities |-> about[1],
     additionalInfo |-> about[2],
     location |-> where[1],
     idealLocation |-> where[2]]

Profiles ==
    {Profile(preferences, hobbies, interests, about, where) :
        preferences \in Preferences, hobbies \in HobbyLists,
        interests \in InterestLists, about \in Abouts, where \in Wheres}

\* a percentage not computed yet; a computed one is <<percentage>>
NotComputed == <<>>

\* the matches list computes a candidate's percentage
CalculateMatchPercentage ==
    /\ otherProfile \in Profiles
    /\ matchPercentage' = <<calculateMatchPercentage(userProfile, otherProfile)>>
    /\ UNCHANGED <<users, currentUserId, messaging, profiling, userProfile,
                   otherProfile, overallPercentage, inFlight>>

\* the details dialog renders the breakdown
RenderMatchCompatibility ==
    /\ userProfile \in Profiles /\ otherProfile \in Profiles
    /\ overallPercentage' = <<MatchCompatibility(userProfile, otherProfile)>>
    /\ UNCHANGED <<users, currentUserId, messaging, profiling, userProfile,
                   otherProfile, matchPercentage, inFlight>>

(***************************************************************************)
(* Storage calls in flight.  createOrUpdateConversation and sendMessage    *)
(* are async functions: each runs to its next await, is suspended there,   *)
(* and is resumed later, other calls running in between.                   *)
(***************************************************************************)
Calls == 1..MaxInFlight

\* no call in a slot
Idle == [pc |-> "idle"]

\* createOrUpdateConversation up to its await: the ids are ordered and
\* getConversation, which has no await of its own, has looked the pair up
untilGetConversation(user1Id, user2Id) ==
    getConversation(conversations, orderIds(user1Id, user2Id)[1],
                    orderIds(user1Id, user2Id)[2])

\* createOrUpdateConversation from its await on: the store it leaves and the
\* conversation it returns, for the lookup result it was suspended with
afterGetConversation(existingConversation, user1Id, user2Id, t) ==
    IF existingConversation # <<>>
    THEN LET updatedConversation ==
                 [existingConversation[1] EXCEPT !.lastMessageAt = t]
         IN  [conversations |-> MapSet(conversations, updatedConversation.id,
                                       updatedConversation),
              currentConversationId |-> currentConversationId,
              ret |-> updatedConversation]
    ELSE LET id == currentConversationId
             newConversation ==
                 [id |-> id,
                  user1Id |-> orderIds(user1Id, user2Id)[1],
                  user2Id |-> orderIds(user1Id, user2Id)[2],
                  lastMessageAt |-> t, unreadCount |-> 0]
         IN  [conversations |-> MapSet(conversations, id, newConversation),
              currentConversationId |-> currentConversationId + 1,
              ret |-> newConversation]

\* sendMessage from its await on, for the conversation it was resumed with
afterCreateOrUpdateConversation(conversation, message, t) ==
    LET id == currentMessageId
        newMessage == [id |-> id,
                       senderId |-> message.senderId,
                       receiverId |-> message.receiverId,
                       content |-> message.content,
                       read |-> readOrFalse(message),
                       createdAt |-> t]
        updatedConversation ==
            [conversation EXCEPT !.lastMessageAt = newMessage.createdAt,
                                 !.unreadCount = unreadAfterSend(conversation)]
    IN  [messages |-> MapSet(messages, id, newMessage),
         currentMessageId |-> currentMessageId + 1,
         conversations |-> MapSet(conversations, conversation.id,
                                  updatedConversation),
         ret |-> newMessage]

\* the sends that have not stored their message yet
sending == {c \in Calls : inFlight[c].pc # "idle" /\ inFlight[c].op = "sendMessage"}

\* the calls that will create a conversation when they are resumed
creating ==
    {c \in Calls : /\ inFlight[c].pc = "await getConversation"
                   /\ inFlight[c].held = <<>>}

\* a call that finds this lookup result leaves the store within its bound
Room(existingConversation) ==
    existingConversation = <<>> =>
        Cardinality(DOMAIN conversations) + Cardinality(creating)
            < MaxConversations

\* a route calls storage.createOrUpdateConversation
CallCreateOrUpdateConversation(c, user1Id, user2Id) ==
    /\ inFlight[c] = Idle
    /\ {user1Id, user2Id} \subseteq DOMAIN users
    /\ Room(untilGetConversation(user1Id, user2Id))
    /\ inFlight' = [inFlight EXCEPT ![c] =
           [pc |-> "await getConversation",
            op |-> "createOrUpdateConversation",
            message |-> [senderId |-> user1Id, receiverId |-> user2Id],
            held |-> untilGetConversation(user1Id, user2Id)]]
    /\ UNCHANGED <<users, currentUserId, messaging, profiling, scoring>>

\* a route calls storage.sendMessage, which calls createOrUpdateConversation
CallSendMessage(c, message) ==
    /\ inFlight[c] = Idle
    /\ {message.senderId, message.receiverId} \subseteq DOMAIN users
    /\ Cardinality(DOMAIN messages) + Cardinality(sending) < MaxMessages
    /\ Room(untilGetConversation(message.senderId, message.receiverId))
    /\ inFlight' = [inFlight EXCEPT ![c] =
           [pc |-> "await getConversation",
            op |-> "sendMessage",
            message |-> message,
            held |-> untilGetConversation(message.senderId,
                                          message.receiverId)]]
    /\ UNCHANGED <<users, currentUserId, messaging, profiling, scoring>>

\* createOrUpdateConversation is resumed and returns: to the route, or to
\* the sendMessage that awaits it
ResumeCreateOrUpdateConversation(c) ==
    /\ inFlight[c].pc = "await getConversation"
    /\ \E t \in Later(now) :
         LET call == inFlight[c]
             resolved == afterGetConversation(call.held, call.message.senderId,
                                              call.message.receiverId, t)
         IN  /\ conversations' = resolved.conversations
             /\ currentConversationId' = resolved.currentConversationId
             /\ now' = t
             /\ inFlight' = [inFlight EXCEPT ![c] =
                    IF call.op = "sendMessage"
                    THEN [call EXCEPT !.pc = "await createOrUpdateConversation",
                                      !.held = <<resolved.ret>>]
                    ELSE Idle]
    /\ UNCHANGED <<users, currentUserId, messages, currentMessageId,
                   profiling, scoring>>

\* sendMessage is resumed and returns
ResumeSendMessage(c) ==
    /\ inFlight[c].pc = "await createOrUpdateConversation"
    /\ \E t \in Later(now) :
         LET call == inFlight[c]
             sent == afterCreateOrUpdateConversation(call.held[1],
                                                     call.message, t)
         IN  /\ messages' = sent.messages
             /\ currentMessageId' = sent.currentMessageId
             /\ conversations' = sent.conversations
             /\ now' = t
             /\ inFlight' = [inFlight EXCEPT ![c] = Idle]
    /\ UNCHANGED <<users, currentUserId, currentConversationId, profiling,
                   scoring>>

(***************************************************************************)
(* The messaging subsystem: registration and the four messaging routes.    *)
(***************************************************************************)
EmptyStore ==
    /\ users = EmptyMap
    /\ currentUserId = 1
    /\ conversations = EmptyMap
    /\ currentConversationId = 1
    /\ messages = EmptyMap
    /\ currentMessageId = 1
    /\ now = 0
    /\ userProfiles = EmptyMap
    /\ userIdToProfileIdMap = EmptyMap
    /\ currentProfileId = 1
    /\ properties = EmptyMap
    /\ currentPropertyId = 1

\* no profile is loaded in the matches page
NoMatches ==
    /\ userProfile = NoProfile
    /\ otherProfile = NoProfile
    /\ matchPercentage = NotComputed
    /\ overallPercentage = NotComputed

\* no storage call is in flight
NoCalls == inFlight = [c \in Calls |-> Idle]

Init == EmptyStore /\ NoMatches /\ NoCalls

Next ==
    \/ Register
    \/ \E session \in Sessions : GetConversations(session)
    \/ \E session \in Sessions, conversationId \in 1..currentConversationId :
         GetMessages(session, conversationId)
    \/ \E session \in Sessions, body \in MessageBodies :
         PostMessages(session, body)
    \/ \E session \in Sessions, body \in ConversationBodies :
         PostConversations(session, body)

Spec == Init /\ [][Next]_vars

(***************************************************************************)
(* Every route, over stores of at most MaxRecords conversations, messages, *)
(* profiles and properties.                                                *)
(***************************************************************************)
Records ==
    Cardinality(DOMAIN conversations) + Cardinality(DOMAIN messages)
    + Cardinality(DOMAIN userProfiles) + Cardinality(DOMAIN properties)

\* the step leaves a store within the bound
Within == Records' <= MaxRecords

AllRoutesNext ==
    \/ Register
    \/ \E session \in Sessions : GetConversations(session)
    \/ \E session \in Sessions, conversationId \in 1..currentConversationId :
         GetMessages(session, conversationId)
    \/ \E session \in Sessions, body \in MessageBodies :
         PostMessages(session, body) /\ Within
    \/ \E session \in Sessions, body \in ConversationBodies :
         PostConversations(session, body) /\ Within
    \/ \E session \in Sessions : GetProfile(session)
    \/ \E session \in Sessions, body \in ProfileBodies :
         PostProfile(session, body) /\ Within
    \/ \E session \in Sessions, body \in PatchBodies :
         PatchProfile(session, body) /\ Within
    \/ \E session \in Sessions : GetProfiles(session)
    \/ \E session \in Sessions, body \in PropertyBodies :
         PostProperties(session, body) /\ Within

AllRoutesSpec == Init /\ [][AllRoutesNext]_vars

(***************************************************************************)
(* The scorers, over the profiles the matches page may have loaded.        *)
(***************************************************************************)
ScoreInit ==
    /\ EmptyStore
    /\ NoCalls
    /\ userProfile \in Profiles \cup {NoProfile}
    /\ otherProfile \in Profiles
    /\ matchPercentage = NotComputed
    /\ overallPercentage = NotComputed

ScoreNext == CalculateMatchPercentage \/ RenderMatchCompatibility

ScoreSpec == ScoreInit /\ [][ScoreNext]_vars

(***************************************************************************)
(* Storage calls that interleave at their awaits.                          *)
(***************************************************************************)
\* the messages a route hands to sendMessage
SentMessages == [senderId : UserIds, receiverId : UserIds, content : Contents]

ConcurrentNext ==
    \/ Register
    \/ \E c \in Calls, user1Id \in UserIds, user2Id \in UserIds :
         CallCreateOrUpdateConversation(c, user1Id, user2Id)
    \/ \E c \in Calls, message \in SentMessages : CallSendMessage(c, message)
    \/ \E c \in Calls : ResumeCreateOrUpdateConversation(c)
    \/ \E c \in Calls : ResumeSendMessage(c)

ConcurrentSpec == Init /\ [][ConcurrentNext]_vars

\* sends only: every conversation is created and written by a send
SendsNext ==
    \/ Register
    \/ \E c \in Calls, message \in SentMessages : CallSendMessage(c, message)
    \/ \E c \in Calls : ResumeCreateOrUpdateConversation(c)
    \/ \E c \in Calls : ResumeSendMessage(c)

SendsSpec == Init /\ [][SendsNext]_vars

(***************************************************************************)
(* Properties.                                                             *)
(***************************************************************************)
pairOf(conversation) == {conversation.user1Id, conversation.user2Id}

messagesOf(conversation) ==
    {id \in DOMAIN messages :
        {messages[id].senderId, messages[id].receiverId} = pairOf(conversation)}

Sent(sender, receiver) ==
    \E id \in DOMAIN messages :
        messages[id].senderId = sender /\ messages[id].receiverId = receiver

\* C1: in every reachable state at most one stored conversation exists for
\* any unordered pair of user ids.
C1_OneConversationPerPair ==
    \A c1, c2 \in DOMAIN conversations :
        pairOf(conversations[c1]) = pairOf(conversations[c2]) => c1 = c2

\* users 1 and 2 have each sent to the other, so the pair was resolved from
\* both sides
C1_Witness ==
    /\ Sent(1, 2) /\ Sent(2, 1)
    /\ \E c \in DOMAIN conversations : pairOf(conversations[c]) = {1, 2}

\* the id createOrUpdateConversation(a, b) returns on these conversations
resolvedId(convs, nextId, a, b) ==
    createOrUpdateConversation(convs, nextId, a, b, now).ret.id

\* C2: in every reachable state and for all users a and b,
\* createOrUpdateConversation(a, b) followed by
\* createOrUpdateConversation(b, a) return the same id, which is the id of
\* the pair's stored conversation when it has one; and no step (a send, a
\* read-marking, another resolve) removes a conversation or changes its id
\* or its pair, so the id is the same however far apart the two calls are.
C2_SameIdEitherOrder ==
    /\ [](\A a, b \in DOMAIN users :
            LET first == createOrUpdateConversation(conversations,
                             currentConversationId, a, b, now)
            IN  /\ resolvedId(first.conversations,
                              first.currentConversationId, b, a)
                       = first.ret.id
                /\ \A c \in DOMAIN conversations :
                       pairOf(conversations[c]) = {a, b} => first.ret.id = c)
    /\ [][\A c \in DOMAIN conversations :
            /\ c \in DOMAIN conversations'
            /\ conversations'[c].id = c
            /\ pairOf(conversations'[c]) = pairOf(conversations[c])]_vars

\* the conversation of users 1 and 2 is not the first one created, and both
\* have sent to the other through it
C2_Witness ==
    /\ Sent(1, 2) /\ Sent(2, 1)
    /\ \E c \in DOMAIN conversations :
         pairOf(conversations[c]) = {1, 2} /\ conversations[c].id > 1

\* C3 (as claimed): the unread counter of every conversation equals the
\* number of messages between its two users whose read flag is false.
C3_CounterCountsUnread ==
    \A c \in DOMAIN conversations :
        conversations[c].unreadCount =
            Cardinality({id \in messagesOf(conversations[c]) :
                            ~messages[id].read})

\* the unread counter of the pair's conversation, 0 when it has none
unreadOf(convs, a, b) ==
    LET found == getConversation(convs, a, b)
    IN  IF found = <<>> THEN 0 ELSE found[1].unreadCount

\* C4: every send raises the unread counter of the pair's conversation by
\* exactly 1 (from 0 to 1 when the send creates the conversation), whichever
\* way the message goes.
C4_SendAddsOne ==
    [][currentMessageId' # currentMessageId =>
         LET sent == messages'[currentMessageId]
         IN  /\ getConversation(conversations', sent.senderId,
                                sent.receiverId) # <<>>
             /\ unreadOf(conversations', sent.senderId, sent.receiverId)
                    = unreadOf(conversations, sent.senderId,
                               sent.receiverId) + 1]_vars

\* two sends, one each way, have raised the counter of users 1 and 2 to 2
C4_Witness ==
    /\ Sent(1, 2) /\ Sent(2, 1)
    /\ unreadOf(conversations, 1, 2) = 2

\* C5: after markMessagesAsRead(conversationId, readerId) on an existing
\* conversation, every message between its two users whose receiver is the
\* reader has read = true and its unread counter is 0.
C5_MarkReadResets ==
    \A c \in DOMAIN conversations : \A reader \in UserIds :
        LET after == markMessagesAsRead(conversations, messages, c, reader)
        IN  /\ after.conversations[c].unreadCount = 0
            /\ \A id \in messagesOf(conversations[c]) :
                   messages[id].receiverId = reader => after.messages[id].read

\* a conversation whose counter a read-marking has reset: it has messages,
\* a message to user 2 is read, and its counter is 0
C5_Witness ==
    \E c \in DOMAIN conversations :
        /\ pairOf(conversations[c]) = {1, 2}
        /\ conversations[c].unreadCount = 0
        /\ \E id \in messagesOf(conversations[c]) :
               messages[id].receiverId = 2 /\ messages[id].read
        /\ \E id \in messagesOf(conversations[c]) :
               messages[id].receiverId = 1 /\ ~messages[id].read

\* C6 (as claimed): every message a send creates is stored with
\* read = false, whatever fields the body of POST /api/messages carries.
C6_SentUnread ==
    \A session \in DOMAIN users : \A body \in MessageBodies :
        LET answer == postMessagesRoute(session, body, now, now)
        IN  answer.status = 201 =>
                ~answer.messages[answer.body.id].read

\* what a handler answer leaves of the messaging store
left(answer) ==
    <<answer.conversations, answer.currentConversationId, answer.messages,
      answer.currentMessageId>>

messagingStore ==
    <<conversations, currentConversationId, messages, currentMessageId>>

\* C7: a send whose receiver id is not an existing user is answered 404
\* "Recipient not found" and leaves the store as it was: no message added, no
\* conversation created, no last-message-at or unread counter changed.
C7_UnknownRecipient ==
    \A session \in DOMAIN users : \A body \in MessageBodies :
        ({"receiverId", "content"} \subseteq DOMAIN body
         /\ body.receiverId \notin DOMAIN users) =>
            LET answer == postMessagesRoute(session, body, now, now)
            IN  /\ answer.status = 404
                /\ answer.body = "Recipient not found"
                /\ left(answer) = messagingStore

\* a user with a conversation and a message stored sends to id 0, which is
\* nobody's
C7_Witness ==
    /\ Sent(1, 2)
    /\ unreadOf(conversations, 1, 2) > 0
    /\ postMessagesRoute(1, [receiverId |-> 0, content |-> "hi"], now, now)
           .status = 404

leftProfiles(answer) ==
    <<answer.userProfiles, answer.userIdToProfileIdMap,
      answer.currentProfileId, answer.properties, answer.currentPropertyId>>

RefusedMessaging(answer) ==
    /\ answer.status = 401
    /\ answer.body = "Unauthorized"
    /\ left(answer) = messagingStore

RefusedProfile(answer) ==
    /\ answer.status = 401
    /\ answer.body = "Unauthorized"
    /\ leftProfiles(answer) = profiling

\* C8: a request without an authenticated session to the profile, profiles,
\* conversations, messages or property-creation routes is answered 401
\* Unauthorized and changes nothing in the store.
C8_UnauthorizedHalts ==
    /\ RefusedProfile(getProfileRoute(NoSession))
    /\ \A body \in ProfileBodies :
           RefusedProfile(postProfileRoute(NoSession, body))
    /\ \A body \in PatchBodies :
           RefusedProfile(patchProfileRoute(NoSession, body))
    /\ RefusedProfile(getProfilesRoute(NoSession))
    /\ \A body \in PropertyBodies :
           RefusedProfile(postPropertiesRoute(NoSession, body))
    /\ RefusedMessaging(getConversationsRoute(NoSession))
    /\ \A conversationId \in 1..currentConversationId :
           RefusedMessaging(getMessagesRoute(NoSession, conversationId))
    /\ \A body \in MessageBodies :
           RefusedMessaging(postMessagesRoute(NoSession, body, now, now))
    /\ \A body \in ConversationBodies :
           RefusedMessaging(postConversationsRoute(NoSession, body, now))

\* a store with a profile and a conversation for the unauthenticated
\* requests to leave alone
C8_Witness ==
    /\ DOMAIN userProfiles # {}
    /\ DOMAIN conversations # {}
    /\ getMessagesRoute(NoSession, 1).status = 401

\* the createdAt of the messages getMessages returns, in its order
createdAts(conversationId) ==
    LET found == getMessages(conversations, messages, conversationId)
    IN  [i \in 1..Len(found) |-> found[i].createdAt]

\* C9 (as claimed): for every conversation the list getMessages returns is
\* strictly ordered by creation time: each createdAt is less than the next.
C9_StrictlyAscending ==
    \A c \in DOMAIN conversations :
        \A i, j \in 1..Len(createdAts(c)) :
            i < j => createdAts(c)[i] < createdAts(c)[j]

\* C9 (amended): for every conversation the list getMessages returns holds
\* each message between its two users once, ordered by creation time
\* ascending but not strictly: each createdAt is at most the next, and
\* messages with the same createdAt come in the order they were sent.
C9_Ascending ==
    \A c \in DOMAIN conversations :
        LET found == getMessages(conversations, messages, c)
        IN  /\ {found[i].id : i \in 1..Len(found)}
                   = messagesOf(conversations[c])
            /\ \A i, j \in 1..Len(found) :
                   i < j =>
                       \/ found[i].createdAt < found[j].createdAt
                       \/ /\ found[i].createdAt = found[j].createdAt
                          /\ found[i].id < found[j].id

\* a conversation whose two messages, one in each direction, got the same
\* clock value
C9_Witness ==
    /\ Sent(1, 2) /\ Sent(2, 1)
    /\ \E c \in DOMAIN conversations :
         Len(createdAts(c)) = 2 /\ createdAts(c)[1] = createdAts(c)[2]

\* C10: the list GET /api/conversations returns to user u holds exactly the
\* stored conversations in which u is a participant, each once and with its
\* stored fields, ordered by last-message-at descending.
C10_ConversationList ==
    \A u \in DOMAIN users :
        LET answer == getConversationsRoute(u)
            list == answer.body
        IN  /\ answer.status = 200
            /\ {list[i].id : i \in 1..Len(list)}
                   = {c \in DOMAIN conversations : u \in pairOf(conversations[c])}
            /\ \A i, j \in 1..Len(list) :
                   /\ i # j => list[i].id # list[j].id
                   /\ i < j => list[i].lastMessageAt >= list[j].lastMessageAt
            /\ \A i \in 1..Len(list) :
                   LET stored == conversations[list[i].id]
                   IN  /\ pairOf(list[i]) = pairOf(stored)
                       /\ list[i].lastMessageAt = stored.lastMessageAt
                       /\ list[i].unreadCount = stored.unreadCount

\* user 1 is in two conversations, listed in the reverse of the order they
\* were created, and not in a third
C10_Witness ==
    LET list == getConversationsRoute(1).body
    IN  /\ Len(list) = 2
        /\ list[1].id > list[2].id
        /\ list[1].lastMessageAt > list[2].lastMessageAt
        /\ \E c \in DOMAIN conversations : 1 \notin pairOf(conversations[c])

\* C11 (as claimed): after any sequence of profile saves by any users, the
\* stored profiles hold at most one profile per user id.
C11_OneProfilePerUser ==
    \A i, j \in 1..Len(getAllUserProfiles(userProfiles)) :
        i # j => getAllUserProfiles(userProfiles)[i].userId
                     # getAllUserProfiles(userProfiles)[j].userId

\* JavaScript truthiness of a stored fullName
isSet(fullName) == fullName \notin {Null, ""}

\* C12 (as claimed): for every stored profile, profileComplete is true if
\* and only if the stored fullName is set (non-null, non-empty) and the
\* stored hobbies and interests lists are both non-empty.
C12_CompleteIffFilled ==
    \A id \in DOMAIN userProfiles :
        userProfiles[id].profileComplete
            <=> /\ isSet(userProfiles[id].fullName)
                /\ Len(userProfiles[id].hobbies) > 0
                /\ Len(userProfiles[id].interests) > 0

\* both percentages of the loaded pair have been computed
Computed == matchPercentage # NotComputed /\ overallPercentage # NotComputed

\* C13: for all pairs of profiles, with null fields and empty lists among
\* them, the match score of the matches list and that of the breakdown are
\* integers between 0 and 100 inclusive.
C13_ScoreInRange ==
    /\ matchPercentage # NotComputed => matchPercentage[1] \in 0..100
    /\ overallPercentage # NotComputed => overallPercentage[1] \in 0..100

\* a pair with null fields and an empty list whose scores lie strictly
\* between 0 and 100
C13_Witness ==
    /\ Computed
    /\ matchPercentage[1] \in 1..99 /\ overallPercentage[1] \in 1..99
    /\ userProfile.petPreference = Null /\ otherProfile.interests = <<>>
    /\ otherProfile.additionalInfo = NoText

\* both sides provide data for some category
Overlap(user, other) ==
    \/ set(user.lifestyle) /\ set(other.lifestyle)
    \/ set(user.cleanliness) /\ set(other.cleanliness)
    \/ set(user.smokingPreference) /\ set(other.smokingPreference)
    \/ set(user.petPreference) /\ set(other.petPreference)
    \/ user.hobbies # <<>> /\ other.hobbies # <<>>
    \/ user.interests # <<>> /\ other.interests # <<>>
    \/ user.roommateQualities # <<>> /\ setText(other.additionalInfo)
    \/ setText(user.location) /\ setText(other.location)

\* C14: for all profile pairs with no overlapping comparable fields (no
\* category in which both sides provide data) the match score is 0, in the
\* matches list and in the breakdown.
C14_NoOverlapScoresZero ==
    (userProfile # NoProfile /\ ~Overlap(userProfile, otherProfile)) =>
        /\ matchPercentage # NotComputed => matchPercentage[1] = 0
        /\ overallPercentage # NotComputed => overallPercentage[1] = 0

\* each side has data the other lacks, and in one pair nobody has any
C14_Witness ==
    /\ Computed
    /\ ~Overlap(userProfile, otherProfile)
    /\ \/ /\ set(userProfile.lifestyle) /\ userProfile.hobbies # <<>>
          /\ userProfile.roommateQualities # <<>>
          /\ setText(otherProfile.location)
       \/ /\ ~set(userProfile.lifestyle) /\ userProfile.hobbies = <<>>
          /\ ~set(otherProfile.lifestyle) /\ otherProfile.hobbies = <<>>

\* the fields the scorers compare are the same on both sides
Identical(user, other) ==
    /\ user.lifestyle = other.lifestyle
    /\ user.cleanliness = other.cleanliness
    /\ user.smokingPreference = other.smokingPreference
    /\ user.petPreference = other.petPreference
    /\ user.hobbies = other.hobbies
    /\ user.interests = other.interests
    /\ user.location = other.location
    /\ user.idealLocation = other.idealLocation

\* C15 (as claimed): for all profile pairs that are identical on every
\* comparable field and share all hobbies and interests, with at least one
\* comparable field, the match score is 100.
C15_IdenticalScoresFull ==
    (/\ userProfile # NoProfile
     /\ Identical(userProfile, otherProfile)
     /\ Overlap(userProfile, otherProfile)) =>
        /\ matchPercentage # NotComputed => matchPercentage[1] = 100
        /\ overallPercentage # NotComputed => overallPercentage[1] = 100

\* the number of the user's entries that match an entry of the other list
matches(list, otherList) ==
    Cardinality({i \in 1..Len(list) :
        \E j \in 1..Len(otherList) :
            toLowerCase(list[i]) = toLowerCase(otherList[j])})

\* the sub-score x is 20 * matches / size of the user's list, and at most 20
ProportionalTo(x, list, otherList) ==
    /\ x.num * Len(list) = 20 * matches(list, otherList) * x.den
    /\ Len(list) = 0 => x.num = 0
    /\ x.num <= 20 * x.den

\* a profile with hobbies and nothing else
OnlyHobbies(hobbies) ==
    Profile(<<Null, Null, Null, Null>>, hobbies, <<>>, <<(<<>>), NoText>>,
            <<NoText, NoText>>)

\* C16: the hobby sub-score is 20 * (the current user's hobbies that match
\* a candidate hobby, case ignored) / (size of the current user's hobby
\* list), never above 20, and so not symmetric: [Reading, Gaming] against
\* [Reading] earns 10 of 20 (50% when nothing else is comparable) and
\* [Reading] against [Reading, Gaming] earns 20 of 20 (100%), the
\* percentages being those of the breakdown.
C16_HobbyScoreProportional ==
    userProfile # NoProfile =>
        LET mine == userProfile.hobbies
            theirs == otherProfile.hobbies
            inBreakdown == calculateHobbyMatch(userProfile, otherProfile).score
            inList == sharedPoints(mine, theirs).points
        IN  /\ ProportionalTo(inBreakdown, mine, theirs)
            /\ ProportionalTo(inList, mine, theirs)
            /\ (mine = <<Reading, Gaming>> /\ theirs = <<Reading>>) =>
                   /\ inBreakdown.num = 10 * inBreakdown.den
                   /\ inList.num = 10 * inList.den
            /\ (mine = <<Reading>> /\ theirs = <<Reading, Gaming>>) =>
                   /\ inBreakdown.num = 20 * inBreakdown.den
                   /\ inList.num = 20 * inList.den
            /\ (/\ Computed
                /\ userProfile = OnlyHobbies(<<Reading, Gaming>>)
                /\ otherProfile = OnlyHobbies(<<Reading>>)) =>
                   overallPercentage[1] = 50
            /\ (/\ Computed
                /\ userProfile = OnlyHobbies(<<Reading>>)
                /\ otherProfile = OnlyHobbies(<<Reading, Gaming>>)) =>
                   overallPercentage[1] = 100

\* [Reading, Gaming] against [Reading] scored
C16_Witness ==
    /\ Computed
    /\ userProfile = OnlyHobbies(<<Reading, Gaming>>)
    /\ otherProfile = OnlyHobbies(<<Reading>>)
    /\ overallPercentage[1] = 50

\* no storage call is suspended
Quiescent == \A c \in Calls : inFlight[c] = Idle

C19_CanonicalOrder ==
    \A c \in DOMAIN conversations :
        /\ conversations[c].user1Id <= conversations[c].user2Id
        /\ orderIds(conversations[c].user2Id, conversations[c].user1Id)
               = <<conversations[c].user1Id, conversations[c].user2Id>>

\* the larger id started it: user 2 has sent to user 1, user 1 has sent
\* nothing to user 2, and their conversation is stored as (1, 2)
C19_Witness ==
    /\ Sent(2, 1) /\ ~Sent(1, 2)
    /\ \E c \in DOMAIN conversations :
         conversations[c].user1Id = 1 /\ conversations[c].user2Id = 2

\* C20: no step removes a stored message or changes its id, senderId,
\* receiverId, content or createdAt, and no step takes its read flag from
\* true back to false: the only change a stored message ever sees is read
\* going from false to true.
C20_MessageImmutable ==
    [][\A id \in DOMAIN messages :
          /\ id \in DOMAIN messages'
          /\ messages'[id].id = messages[id].id
          /\ messages'[id].senderId = messages[id].senderId
          /\ messages'[id].receiverId = messages[id].receiverId
          /\ messages'[id].content = messages[id].content
          /\ messages'[id].createdAt = messages[id].createdAt
          /\ (messages[id].read => messages'[id].read)]_vars

\* later operations have acted on a stored message: a message to user 2 is
\* read, a later message to user 1 was sent after it and is unread, and a
\* read-marking has reset the counter since that send
C20_Witness ==
    \E c \in DOMAIN conversations : \E first, later \in messagesOf(conversations[c]) :
        /\ first < later
        /\ messages[first].receiverId = 2 /\ messages[first].read
        /\ messages[later].receiverId = 1 /\ ~messages[later].read
        /\ messages[later].senderId = 2
        /\ conversations[c].unreadCount = 0

\* C21: in every reachable state markMessagesAsRead(c, u) on a stored
\* conversation c leaves unchanged every message whose receiver is not u and
\* every message that is not between the two users of c; and whenever a step
\* takes the read flag of a stored message from false to true, the step is
\* the read-marking of a conversation of the message's pair by the message's
\* receiver, who is one of the conversation's users.
C21_OnlyReceiverMarks ==
    /\ [](\A c \in DOMAIN conversations : \A u \in UserIds :
            LET after == markMessagesAsRead(conversations, messages, c, u)
            IN  \A id \in DOMAIN messages :
                    \/ messages[id].receiverId = u /\
                       id \in messagesOf(conversations[c])
                    \/ after.messages[id] = messages[id])
    /\ [][\A id \in DOMAIN messages :
            ~messages[id].read /\ messages'[id].read =>
                \E c \in DOMAIN conversations :
                    /\ id \in messagesOf(conversations[c])
                    /\ messages' = markMessagesAsRead(conversations, messages,
                                       c, messages[id].receiverId).messages]_vars

\* user 2 has opened the conversation with user 1 (its counter is 0 and the
\* message to user 2 is read) while a message of another pair stays unread
C21_Witness ==
    \E c \in DOMAIN conversations : \E mine, other \in DOMAIN messages :
        /\ pairOf(conversations[c]) = {1, 2}
        /\ conversations[c].unreadCount = 0
        /\ mine \in messagesOf(conversations[c])
        /\ messages[mine].receiverId = 2 /\ messages[mine].read
        /\ other \notin messagesOf(conversations[c])
        /\ ~messages[other].read

\* C22: in every reachable state and for all users a and b and every clock
\* value t, createOrUpdateConversation(a, b) at time t changes no stored
\* conversation but the one it returns; when no conversation is stored for
\* the pair {a, b} it stores a new one for that pair under an unused id with
\* unread counter 0 and lastMessageAt = t; when one is stored it returns that
\* one with lastMessageAt = t and its id, pair and unread counter as they
\* were.  And every step that creates a conversation or moves a
\* lastMessageAt without storing a message (the resolve of
\* POST /api/conversations) leaves every message as it was and sets that
\* lastMessageAt to the clock value it read.
C22_CreatesOrTouches ==
    /\ [](\A a, b \in DOMAIN users : \A t \in Times :
            LET r == createOrUpdateConversation(conversations,
                         currentConversationId, a, b, t)
                stored == {c \in DOMAIN conversations :
                              pairOf(conversations[c]) = {a, b}}
            IN  /\ \A c \in DOMAIN conversations :
                       c # r.ret.id => /\ c \in DOMAIN r.conversations
                                       /\ r.conversations[c] = conversations[c]
                /\ DOMAIN r.conversations = DOMAIN conversations \cup {r.ret.id}
                /\ r.conversations[r.ret.id] = r.ret
                /\ pairOf(r.ret) = {a, b}
                /\ r.ret.lastMessageAt = t
                /\ IF stored = {}
                   THEN /\ r.ret.id \notin DOMAIN conversations
                        /\ r.ret.unreadCount = 0
                   ELSE /\ r.ret.id \in stored
                        /\ r.ret.unreadCount
                               = conversations[r.ret.id].unreadCount)
    /\ [][/\ currentMessageId' = currentMessageId
          /\ \E c \in DOMAIN conversations' :
                \/ c \notin DOMAIN conversations
                \/ conversations'[c].lastMessageAt
                       # conversations[c].lastMessageAt
          => /\ messages' = messages
             /\ \A c \in DOMAIN conversations' :
                   \/ c \in DOMAIN conversations /\
                      conversations'[c] = conversations[c]
                   \/ conversations'[c].lastMessageAt = now']_vars

\* a resolve has touched a conversation that holds an unread message: its
\* lastMessageAt is later than the createdAt of each of its messages (a send
\* leaves the two equal) and its counter is still 1
C22_Witness ==
    \E c \in DOMAIN conversations :
        /\ conversations[c].unreadCount = 1
        /\ messagesOf(conversations[c]) # {}
        /\ \A id \in messagesOf(conversations[c]) :
               messages[id].createdAt < conversations[c].lastMessageAt

\* C23: in every reachable state and for every stored conversation,
\* getMessages returns exactly the stored messages whose sender and receiver
\* are the conversation's two users, in either direction: each of them once,
\* as stored, and no message that involves any other user.
C23_ExactlyThePair ==
    \A c \in DOMAIN conversations :
        LET list == getMessages(conversations, messages, c)
        IN  /\ {list[i].id : i \in 1..Len(list)} = messagesOf(conversations[c])
            /\ Len(list) = Cardinality(messagesOf(conversations[c]))
            /\ \A i \in 1..Len(list) :
                   /\ list[i] = messages[list[i].id]
                   /\ {list[i].senderId, list[i].receiverId}
                          \subseteq pairOf(conversations[c])

\* the conversation of users 1 and 2 holds a message from user 2 to user 1
\* while a message that shares only one user with it is stored as well
C23_Witness ==
    \E c \in DOMAIN conversations : \E mine, other \in DOMAIN messages :
        /\ conversations[c].user1Id = 1 /\ conversations[c].user2Id = 2
        /\ messages[mine].senderId = 2 /\ messages[mine].receiverId = 1
        /\ messages[other].senderId = messages[other].receiverId

\* the save the route makes for the user of the session, who has a profile
InPlace(u, body, answer) ==
    LET profileId == userIdToProfileIdMap[u]
        before == userProfiles[profileId]
    IN  /\ DOMAIN answer.userProfiles = DOMAIN userProfiles
        /\ answer.userProfiles[profileId].id = before.id
        /\ answer.body.id = before.id
        /\ \A id \in DOMAIN userProfiles :
               userProfiles[id].userId # u =>
                   answer.userProfiles[id] = userProfiles[id]
        /\ \A f \in DOMAIN before \ (DOMAIN body \cup {"profileComplete"}) :
               answer.userProfiles[profileId][f] = before[f]

\* C24 (as claimed): in every reachable state a save (POST /api/profile with
\* a valid body, or PATCH /api/profile) by a user who already has a profile
\* keeps the profile's id and the number of stored profiles, changes no
\* profile of another user, and leaves every field that is absent from the
\* body at its previous value (profileComplete, which every save recomputes,
\* is not counted among them).
C24_UpdatesInPlace ==
    \A u \in DOMAIN users :
        getUserProfile(userProfiles, userIdToProfileIdMap, u) # <<>> =>
            /\ \A body \in ProfileBodies :
                   LET answer == postProfileRoute(u, body)
                   IN  answer.status = 201 => InPlace(u, body, answer)
            /\ \A body \in PatchBodies :
                   InPlace(u, body, patchProfileRoute(u, body))

\* whether a profile provides data in a scalar field and in a list field
provides(value) == set(value)

providesList(list) == setList(list) /\ Len(list) > 0

\* whether both profiles provide data for the i-th of the categories
\* lifestyle, cleanliness, smoking, pets, hobbies, interests, location
BothProvide(i, user, other) ==
    CASE i = 1 -> provides(user.lifestyle) /\ provides(other.lifestyle)
      [] i = 2 -> provides(user.cleanliness) /\ provides(other.cleanliness)
      [] i = 3 -> provides(user.smokingPreference) /\
                  provides(other.smokingPreference)
      [] i = 4 -> provides(user.petPreference) /\ provides(other.petPreference)
      [] i = 5 -> providesList(user.hobbies) /\ providesList(other.hobbies)
      [] i = 6 -> providesList(user.interests) /\ providesList(other.interests)
      [] i = 7 -> setText(user.location) /\ setText(other.location)

\* the seven categories as the breakdown scores them
breakdown(user, other) ==
    <<calculateLifestyleMatch(user, other),
      calculateCleanlinessMatch(user, other),
      calculateSmokingMatch(user, other),
      calculatePetMatch(user, other),
      calculateHobbyMatch(user, other),
      calculateInterestMatch(user, other),
      calculateLocationMatch(user, other)>>

\* C25 (as claimed): for the scored pair of profiles and each of lifestyle,
\* cleanliness, smoking, pets, hobbies, interests and location, in the
\* breakdown and in the matches list alike: when either profile provides no
\* data for the category (an unset value, an empty list), the category adds
\* nothing to the possible points and nothing to the earned points.
C25_OnlyWithData ==
    userProfile \in Profiles /\ Computed =>
        /\ \A i \in 1..7 :
               ~BothProvide(i, userProfile, otherProfile) =>
                   /\ breakdown(userProfile, otherProfile)[i].maxScore.num = 0
                   /\ breakdown(userProfile, otherProfile)[i].score.num = 0
        /\ \A i \in 1..6 :
               ~BothProvide(i, userProfile, otherProfile) =>
                   /\ matchPoints(userProfile, otherProfile)[i].maxPoints.num = 0
                   /\ matchPoints(userProfile, otherProfile)[i].points.num = 0

\* a profile with nothing but a current and an ideal location
OnlyLocation(where) ==
    Profile(<<Null, Null, Null, Null>>, <<>>, <<>>, <<(<<>>), NoText>>, where)

\* whether two texts are equal when case is ignored
sameIgnoringCase(text, otherText) == toLowerCase(text) = toLowerCase(otherText)

\* C26: for the scored pair of profiles the location category of the
\* breakdown counts 0 possible (and 0 earned) points when either current
\* location is missing; when both are set it counts 15 possible points and
\* earns 15 if the two current locations are equal ignoring case, otherwise
\* 10 if either profile's ideal location is set and equals the other's
\* current location ignoring case, otherwise 0.  When the profiles carry
\* nothing but locations the overall percentage is accordingly 100, 67 or 0.
C26_LocationCategory ==
    overallPercentage # NotComputed =>
        LET location == calculateLocationMatch(userProfile, otherProfile)
            both == setText(userProfile.location) /\ setText(otherProfile.location)
            ideal ==
                \/ /\ setText(userProfile.idealLocation)
                   /\ sameIgnoringCase(userProfile.idealLocation,
                                       otherProfile.location)
                \/ /\ setText(otherProfile.idealLocation)
                   /\ sameIgnoringCase(otherProfile.idealLocation,
                                       userProfile.location)
            earned ==
                IF ~both THEN 0
                ELSE IF sameIgnoringCase(userProfile.location,
                                         otherProfile.location) THEN 15
                ELSE IF ideal THEN 10 ELSE 0
        IN  /\ location.maxScore = Whole(IF both THEN 15 ELSE 0)
            /\ location.score = Whole(earned)
            /\ (\E where, otherWhere \in Wheres :
                   /\ userProfile = OnlyLocation(where)
                   /\ otherProfile = OnlyLocation(otherWhere)) =>
                   overallPercentage[1] = CASE earned = 15 -> 100
                                            [] earned = 10 -> 67
                                            [] earned = 0 -> 0

\* the breakdown has been rendered for a pair whose current locations differ
\* and where the user lives in the other's ideal location, with nothing else
\* to compare: 10 of 15
C26_Witness ==
    /\ overallPercentage = <<67>>
    /\ userProfile = OnlyLocation(<<Boston, NoText>>)
    /\ otherProfile = OnlyLocation(<<austin, Boston>>)

\* C27 (as claimed): for every pair of profiles, once both have been
\* computed, the match percentage of the matches list
\* (calculateMatchPercentage) equals the overall percentage of the
\* compatibility breakdown (MatchCompatibility).
C27_SamePercentage ==
    userProfile \in Profiles /\ Computed => matchPercentage = overallPercentage

\* C28 (as claimed): in every reachable state, for every user u that has a
\* profile, the profile getUserProfile(u) returns has userId = u and the id
\* under which it is stored, whatever bodies the saves before carried.
C28_ProfileIsOwn ==
    \A u \in UserIds :
        LET profile == getUserProfile(userProfiles, userIdToProfileIdMap, u)
        IN  profile # <<>> =>
                /\ profile[1].userId = u
                /\ profile[1].id = userIdToProfileIdMap[u]
                /\ userProfiles[profile[1].id] = profile[1]

\* C29: in every reachable state, GET /api/conversations/:id/messages for a
\* stored conversation by an authenticated user who is neither of its two
\* users is answered 403 "Forbidden" and leaves the store as it is: no
\* message is marked read and every conversation keeps its unread counter
\* and its lastMessageAt.
C29_ForbiddenChangesNothing ==
    \A session \in DOMAIN users : \A c \in DOMAIN conversations :
        session \notin pairOf(conversations[c]) =>
            LET answer == getMessagesRoute(session, c)
            IN  /\ answer.status = 403 /\ answer.body = "Forbidden"
                /\ answer.messages = messages
                /\ answer.conversations = conversations
                /\ answer.currentMessageId = currentMessageId
                /\ answer.currentConversationId = currentConversationId

\* user 2 is registered and is no part of a stored conversation that holds
\* an unread message, which a read-marking would have changed
C29_Witness ==
    /\ 2 \in DOMAIN users
    /\ \E c \in DOMAIN conversations :
         /\ 2 \notin pairOf(conversations[c])
         /\ conversations[c].unreadCount > 0
         /\ \E id \in messagesOf(conversations[c]) : ~messages[id].read
         /\ getMessagesRoute(2, c).status = 403

\* the conversations in whose getMessages the message appears
listedIn(id) ==
    {c \in DOMAIN conversations :
        \E i \in 1..Len(getMessages(conversations, messages, c)) :
            getMessages(conversations, messages, c)[i].id = id}

\* C30: in every reachable state each stored message has exactly one stored
\* conversation whose pair of users is the message's {sender, receiver}; the
\* message appears in getMessages of that conversation and of no other.
\* (Requests served one at a time; when storage calls interleave at their
\* awaits the duplicate conversations of C17 break it.)
C30_ExactlyOneConversation ==
    \A id \in DOMAIN messages :
        LET its == {c \in DOMAIN conversations :
                       pairOf(conversations[c])
                           = {messages[id].senderId, messages[id].receiverId}}
        IN  Cardinality(its) = 1 /\ listedIn(id) = its

\* two conversations are stored and each holds a message
C30_Witness ==
    \E c1, c2 \in DOMAIN conversations : \E id1, id2 \in DOMAIN messages :
        /\ c1 # c2
        /\ listedIn(id1) = {c1}
        /\ listedIn(id2) = {c2}

====
